---- MODULE Spec2Model ----
(***************************************************************************)
(* Content-addressed conversion cache of convertion_api.                   *)
(*                                                                         *)
(* State: the cache tree on disk (one directory per content hash), the     *)
(* convert requests in flight, the three background tasks (expiry_loop,    *)
(* produce_cache, consume_cache), the hand-off queue cached_data_q and the *)
(* published listing cached_data, and the wall clock.                      *)
(*                                                                         *)
(* Every coroutine of server.py runs on one asyncio event loop, so a       *)
(* stretch of code without an await is one atomic action here.  File and   *)
(* member names are sequences of characters, so that os.path.splitext,     *)
(* str.split, str.endswith and str.lower are computed, not assumed.        *)
(***************************************************************************)
EXTENDS Integers, Sequences, FiniteSets, Bags, TLC

VARIABLES
    now,            \* time.time(), in ticks of TickSeconds seconds
    fs,             \* cache/: content hash -> (member name -> file content)
    req,            \* bag of the convert_file requests in flight
    uploads,        \* convert requests accepted so far
    tasks,          \* state of the three background tasks
    stop_event,     \* server.stop_event
    cached_data,    \* server.cached_data (the published listing)
    cached_data_q,  \* server.cached_data_q (queue.Queue, FIFO)
    scans,          \* number of view_info results produced so far
    faults,         \* storage faults (OSError) raised so far
    ledger          \* per hash: the expiry_at of the entry stored last, until
                    \* a lookup has answered Expired for it

vars == <<now, fs, req, uploads, tasks, stop_event, cached_data,
          cached_data_q, scans, faults, ledger>>

----------------------------------------------------------------------------
(* Bounds of the model. *)

\* seconds per clock tick
TickSeconds == 300

\* last clock value
MaxTime == 3

\* convert requests accepted in one behaviour
MaxUploads == 2

\* scan results that may wait in cached_data_q
MaxQueue == 2

\* scans the producer performs
MaxScans == 2

\* storage faults injected in one behaviour
MaxFaults == 1

----------------------------------------------------------------------------
(* Strings as character sequences. *)

Dot == "."

\* str.lower() on the characters that occur in the model
LowerChar(c) ==
    CASE c = "M" -> "m"
      [] c = "K" -> "k"
      [] c = "V" -> "v"
      [] OTHER -> c

Lower(s) == [i \in 1..Len(s) |-> LowerChar(s[i])]

\* str.rfind('.'), 0 when there is none
RFindDot(s) ==
    LET dots == {i \in 1..Len(s) : s[i] = Dot}
    IN  IF dots = {} THEN 0 ELSE CHOOSE i \in dots : \A j \in dots : j <= i

\* os.path.splitext: split at the last dot, unless only dots precede it
splitext(p) ==
    LET d == RFindDot(p)
    IN  IF d > 0 /\ \E i \in 1..(d - 1) : p[i] # Dot
        THEN <<SubSeq(p, 1, d - 1), SubSeq(p, d, Len(p))>>
        ELSE <<p, <<>>>>

\* f.split('.')[0]
SplitDotFirst(f) ==
    LET dots == {i \in 1..Len(f) : f[i] = Dot}
    IN  IF dots = {} THEN f
        ELSE SubSeq(f, 1, (CHOOSE i \in dots : \A j \in dots : i <= j) - 1)

\* f.endswith("json")
EndsWithJson(f) ==
    /\ Len(f) >= 4
    /\ SubSeq(f, Len(f) - 3, Len(f)) = <<"j", "s", "o", "n">>

SUPPORTED_VIDEO_EXTENSIONS ==
    { <<".", "m", "p", "4">>, <<".", "m", "k", "v">>, <<".", "a", "v", "i">>,
      <<".", "m", "o", "v">>, <<".", "w", "m", "v">>, <<".", "f", "l", "v">>,
      <<".", "w", "e", "b", "m">> }

Mp3Ext == <<".", "m", "p", "3">>

MetaName == <<"m", "e", "t", "a", "d", "a", "t", "a", ".", "j", "s", "o", "n">>

----------------------------------------------------------------------------
(* Inputs. *)

\* upload filenames
aMp4 == <<"a", ".", "m", "p", "4">>
bMKV == <<"b", ".", "M", "K", "V">>
cTxt == <<"c", ".", "t", "x", "t">>

\* upload bodies
Payloads == {"v1", "v2"}

\* the uploads clients send: the same bytes under two names, other bytes
\* under the first name again, and a file that is no video
Uploads ==
    { [filename |-> aMp4, chunk |-> "v1"],
      [filename |-> bMKV, chunk |-> "v1"],
      [filename |-> aMp4, chunk |-> "v2"],
      [filename |-> cTxt, chunk |-> "v2"] }

QUALITY_MAP == [low |-> 8, medium |-> 5, high |-> 2, best |-> 0]

\* quality values requests are sent with
Qualities == {"best"}

\* hashlib.sha256(chunk).hexdigest(): one digest per body, no collisions
sha256(chunk) == <<"sha256", chunk>>

Hashes == {sha256(p) : p \in Payloads}

\* TTL of an entry in ticks: time.time() + (3600//2//3)
TTL == ((3600 \div 2) \div 3) \div TickSeconds

----------------------------------------------------------------------------
(* The cache tree. *)

\* a payload or converted file on disk
BytesFile(data) == [kind |-> "bytes", data |-> data]

\* metadata.json as json.dump writes it
MetaFile(expiry_date, base, ext) ==
    [kind |-> "json", expiry_date |-> expiry_date, filename |-> base,
     file_ext |-> ext]

\* raw upload bytes and what ffmpeg makes of them at a quality level
Raw(chunk) == <<"raw", chunk>>
Mp3(chunk, q_value) == <<"mp3", chunk, q_value>>

EmptyDir == [n \in {} |-> BytesFile(Raw("v1"))]

\* open(path, "w").write(content) inside a directory
WriteMember(dir, name, content) ==
    [n \in (DOMAIN dir) \cup {name} |-> IF n = name THEN content ELSE dir[n]]

\* os.makedirs(subdir, exist_ok=True)
makedirs(fsys, h) ==
    IF h \in DOMAIN fsys THEN fsys
    ELSE [d \in (DOMAIN fsys) \cup {h} |-> IF d = h THEN EmptyDir ELSE fsys[d]]

RmOk == [ok |-> TRUE, keep |-> {}]

\* the ways shutil.rmtree of directory h can end: the whole tree removed, or
\* an OSError after some members were unlinked (keep is what is left)
RmOutcomes(fsys, h) ==
    {RmOk} \cup
    (IF h \in DOMAIN fsys /\ faults < MaxFaults
     THEN {[ok |-> FALSE, keep |-> k] : k \in (SUBSET DOMAIN fsys[h]) \ {{}}}
     ELSE {})

\* an rmtree that reports success and removes nothing
rmtree_keeps(fsys, h, rm) == fsys

\* shutil.rmtree(folder)
rmtree(fsys, h, rm) ==
    IF rm.ok
    THEN [d \in (DOMAIN fsys) \ {h} |-> fsys[d]]
    ELSE [fsys EXCEPT ![h] = [n \in rm.keep |-> fsys[h][n]]]

----------------------------------------------------------------------------
(* util/cache.py *)

\* the comparison of find_file turned around
is_expired_reversed(meta, t) == meta.expiry_date > t

\* meta["expiry_date"] < time.time()
is_expired(meta, t) == meta.expiry_date < t

\* what find_file returns or raises; fs is the tree it leaves behind
FindResult(out, file, fsys) == [out |-> out, file |-> file, fs |-> fsys]

NoFile == [filename |-> <<>>, video_file_hash |-> <<>>, expiry_date |-> 0,
           file_bytes |-> <<>>, file_ext |-> <<>>]

\* find_file(video_file_hash, ext) at time t; rm is how the rmtree of an
\* expired entry ends.  out is "hit" (a CachedFile), "none" (None),
\* "expired" (HTTPException 410) or "error" (an OSError leaves the handler)
find_file(fsys, video_file_hash, ext, t, rm) ==
    IF video_file_hash \in DOMAIN fsys
       /\ Cardinality(DOMAIN fsys[video_file_hash]) = 3
    THEN LET cache_folder == fsys[video_file_hash]
         IN  IF MetaName \notin DOMAIN cache_folder
             THEN FindResult("error", NoFile, fsys)
             ELSE LET meta == cache_folder[MetaName]
                      filename ==
                          IF ext = "mp3"
                          THEN meta.filename \o <<Dot>> \o <<"m", "p", "3">>
                          ELSE meta.filename \o meta.file_ext
                  IN  IF is_expired(meta, t)
                      THEN IF rm.ok
                           THEN FindResult("expired", NoFile,
                                           rmtree(fsys, video_file_hash, rm))
                           ELSE FindResult("error", NoFile,
                                           rmtree(fsys, video_file_hash, rm))
                      ELSE IF filename \notin DOMAIN cache_folder
                           THEN FindResult("error", NoFile, fsys)
                           ELSE FindResult("hit",
                                  [filename |-> meta.filename,
                                   video_file_hash |-> video_file_hash,
                                   expiry_date |-> meta.expiry_date,
                                   file_bytes |-> cache_folder[filename].data,
                                   file_ext |-> meta.file_ext],
                                  fsys)
    ELSE FindResult("none", NoFile, fsys)

\* the ways the rmtree inside find_file can end (it runs only on an entry of
\* three members whose metadata says it has expired)
FindRmOutcomes(fsys, h, t) ==
    IF /\ h \in DOMAIN fsys
       /\ Cardinality(DOMAIN fsys[h]) = 3
       /\ MetaName \in DOMAIN fsys[h]
       /\ fsys[h][MetaName].expiry_date < t
    THEN RmOutcomes(fsys, h)
    ELSE {RmOk}

\* a cache_file that writes metadata.json first and the payloads after it
cache_file_meta_first(fsys, video_file_hash, filename, file_bytes, converted_file_bytes, t, written) ==
    LET made == makedirs(fsys, video_file_hash)
        base == splitext(filename)[1]
        ext == splitext(filename)[2]
        d0 == made[video_file_hash]
        d1 == IF written >= 1
              THEN WriteMember(d0, MetaName, MetaFile(t + TTL, base, ext))
              ELSE d0
        d2 == IF written >= 2
              THEN WriteMember(d1, filename, BytesFile(file_bytes)) ELSE d1
        d3 == IF written >= 3
              THEN WriteMember(d2, base \o Mp3Ext,
                               BytesFile(converted_file_bytes))
              ELSE d2
    IN  [made EXCEPT ![video_file_hash] = d3]

\* a cache_file that never writes the converted bytes
cache_file_skips_mp3(fsys, video_file_hash, filename, file_bytes, converted_file_bytes, t, written) ==
    LET made == makedirs(fsys, video_file_hash)
        base == splitext(filename)[1]
        ext == splitext(filename)[2]
        d0 == made[video_file_hash]
        d1 == IF written >= 1
              THEN WriteMember(d0, filename, BytesFile(file_bytes)) ELSE d0
        d3 == IF written >= 3
              THEN WriteMember(d1, MetaName, MetaFile(t + TTL, base, ext))
              ELSE d1
    IN  [made EXCEPT ![video_file_hash] = d3]

\* cache_file(video_file_hash, filename, file_bytes, converted_file_bytes) at
\* time t.  written is the number of members written before an OSError
\* (3: the call returns)
cache_file(fsys, video_file_hash, filename, file_bytes, converted_file_bytes, t, written) ==
    LET made == makedirs(fsys, video_file_hash)
        expiry_date == t + TTL
        base == splitext(filename)[1]
        ext == splitext(filename)[2]
        mp3_filename == base \o Mp3Ext
        d0 == made[video_file_hash]
        d1 == IF written >= 1
              THEN WriteMember(d0, filename, BytesFile(file_bytes)) ELSE d0
        d2 == IF written >= 2
              THEN WriteMember(d1, mp3_filename,
                               BytesFile(converted_file_bytes))
              ELSE d1
        d3 == IF written >= 3
              THEN WriteMember(d2, MetaName, MetaFile(expiry_date, base, ext))
              ELSE d2
    IN  [made EXCEPT ![video_file_hash] = d3]

\* the members of a folder that view_info's inner loop does not skip
NonJson(dir) == {f \in DOMAIN dir : ~EndsWithJson(f)}

\* the folders on which view_info raises: at most three members and no
\* metadata.json to open
ScanRaises(fsys) ==
    {folder \in DOMAIN fsys :
        /\ ~(Cardinality(DOMAIN fsys[folder]) > 3)
        /\ MetaName \notin DOMAIN fsys[folder]}

RECURSIVE ScanFolders(_, _, _, _)
\* the outer loop of view_info from position i of os.listdir's order
ScanFolders(fsys, order, first, i) ==
    IF i > Len(order) THEN <<>>
    ELSE LET folder == order[i]
             dir == fsys[folder]
             rest == ScanFolders(fsys, order, first, i + 1)
         IN  IF Cardinality(DOMAIN dir) > 3 THEN rest
             ELSE IF NonJson(dir) = {} THEN rest
             ELSE <<[filename |-> SplitDotFirst(first[folder]),
                     video_file_hash |-> folder,
                     expiry_date |-> dir[MetaName].expiry_date,
                     file_ext |-> dir[MetaName].file_ext]>> \o rest

\* view_info(): order is os.listdir(cache_folder), first[folder] the first
\* member of the folder that is not the json.  Any exception makes view_info
\* call itself on the same, unchanged tree, so it raises again at every depth
\* and the call ends in RecursionError
view_info(fsys, order, first) ==
    IF ScanRaises(fsys) # {}
    THEN [raised |-> TRUE, data |-> <<>>]
    ELSE [raised |-> FALSE, data |-> ScanFolders(fsys, order, first, 1)]

RECURSIVE SweepFrom(_, _, _, _, _)
\* the loop of expiry_job from position i of os.listdir's order; bad is the
\* folder whose rmtree ends as rm says (every other rmtree succeeds)
SweepFrom(fsys, order, i, t, rm) ==
    IF i > Len(order) THEN [raised |-> FALSE, faulted |-> FALSE, fs |-> fsys]
    ELSE LET folder == order[i]
         IN  IF MetaName \notin DOMAIN fsys[folder]
             THEN [raised |-> TRUE, faulted |-> FALSE, fs |-> fsys]
             ELSE IF fsys[folder][MetaName].expiry_date < t
                  THEN IF rm.ok \/ rm.at # folder
                       THEN SweepFrom(rmtree(fsys, folder, RmOk), order,
                                      i + 1, t, rm)
                       ELSE [raised |-> TRUE, faulted |-> TRUE,
                             fs |-> rmtree(fsys, folder, rm)]
                  ELSE SweepFrom(fsys, order, i + 1, t, rm)

\* an expiry_job that compares expiry_date with a time one TTL ahead of the
\* clock, so that it removes entries that have not expired
expiry_job_too_early(fsys, order, t, rm) ==
    SweepFrom(fsys, order, 1, t + TTL + 1, rm)

\* expiry_job() at time t
expiry_job(fsys, order, t, rm) == SweepFrom(fsys, order, 1, t, rm)

----------------------------------------------------------------------------
(* State. *)

\* os.listdir of the cache root, in any order
ListDirs(fsys) ==
    LET S == DOMAIN fsys
    IN  {o \in [1..Cardinality(S) -> S] :
            \A i, j \in 1..Cardinality(S) : i # j => o[i] # o[j]}

\* per folder, the member os.listdir of the folder yields first among those
\* that are not json
FirstMembers(fsys) ==
    LET names == UNION {DOMAIN fsys[h] : h \in DOMAIN fsys} \cup {MetaName}
    IN  {f \in [DOMAIN fsys -> names] :
            \A h \in DOMAIN fsys :
                IF NonJson(fsys[h]) = {} THEN f[h] = MetaName
                ELSE f[h] \in NonJson(fsys[h])}

\* the history of one hash: never stored, stored with an expiry_at, or
\* answered Expired since it was stored last
NeverStored == [state |-> "never", expiry_at |-> 0]
StoredUntil(expiry_at) == [state |-> "stored", expiry_at |-> expiry_at]
AnsweredExpired == [state |-> "expired", expiry_at |-> 0]

\* cached_data = None
NonePublished == [isNone |-> TRUE, scan |-> 0, data |-> <<>>]

Init ==
    /\ now = 0
    /\ fs = [h \in {} |-> EmptyDir]
    /\ req = EmptyBag
    /\ uploads = 0
    /\ tasks = [expiry |-> "running", producer |-> "running",
                consumer |-> "running"]
    /\ stop_event = FALSE
    /\ cached_data = NonePublished
    /\ cached_data_q = <<>>
    /\ scans = 0
    /\ faults = 0
    /\ ledger = [h \in Hashes |-> NeverStored]

----------------------------------------------------------------------------
(* server.py: the convert endpoint. *)

Response(step, status, body, fsys) ==
    [step |-> step, status |-> status, body |-> body, fs |-> fsys]

NoBody == <<>>

\* a convert_file that hashes and looks the upload up before it checks the
\* extension
convert_file_lookup_first(fsys, filename, chunk, t, rm) ==
    LET cached_file == find_file(fsys, sha256(chunk), "mp3", t, rm)
    IN  IF Lower(splitext(filename)[2]) \notin SUPPORTED_VIDEO_EXTENSIONS
        THEN Response("rejected", 400, NoBody, cached_file.fs)
        ELSE CASE cached_file.out = "hit" ->
                    Response("respond_cached", 200,
                             cached_file.file.file_bytes, cached_file.fs)
               [] cached_file.out = "expired" ->
                    Response("raise", 410, NoBody, cached_file.fs)
               [] cached_file.out = "error" ->
                    Response("raise", 500, NoBody, cached_file.fs)
               [] cached_file.out = "none" ->
                    Response("convert", 0, NoBody, cached_file.fs)

\* convert_file up to the await of diskConvertMp3: the extension check, the
\* hash and the lookup.  step is what the handler does next: "rejected"
\* (400), "respond_cached" (200 with the stored bytes), "raise" (the
\* exception of find_file leaves the handler) or "convert"
convert_file(fsys, filename, chunk, t, rm) ==
    LET file_extension == Lower(splitext(filename)[2])
        file_hash == sha256(chunk)
        cached_file == find_file(fsys, file_hash, "mp3", t, rm)
    IN  IF file_extension \notin SUPPORTED_VIDEO_EXTENSIONS
        THEN Response("rejected", 400, NoBody, fsys)
        ELSE CASE cached_file.out = "hit" ->
                    Response("respond_cached", 200,
                             cached_file.file.file_bytes, cached_file.fs)
               [] cached_file.out = "expired" ->
                    Response("raise", 410, NoBody, cached_file.fs)
               [] cached_file.out = "error" ->
                    Response("raise", 500, NoBody, cached_file.fs)
               [] cached_file.out = "none" ->
                    Response("convert", 0, NoBody, cached_file.fs)

\* a request in flight: awaiting diskConvertMp3 ("converting") or answered
\* with its cache_file background task still to run ("caching")
Request(pc, filename, chunk, quality, converted_file) ==
    [pc |-> pc, filename |-> filename, chunk |-> chunk, quality |-> quality,
     converted_file |-> converted_file]

\* whether the lookup of an upload reaches find_file at all
Supported(filename) ==
    Lower(splitext(filename)[2]) \in SUPPORTED_VIDEO_EXTENSIONS

ConvertLookup(filename, chunk, quality, rm) ==
    LET r == convert_file(fs, filename, chunk, now, rm)
    IN  /\ ~stop_event
        /\ uploads < MaxUploads
        /\ rm \in (IF Supported(filename)
                   THEN FindRmOutcomes(fs, sha256(chunk), now) ELSE {RmOk})
        /\ fs' = r.fs
        /\ faults' = IF rm.ok THEN faults ELSE faults + 1
        /\ IF r.step = "convert"
           THEN /\ req' = req (+) SetToBag({Request("converting", filename,
                                                    chunk, quality, NoBody)})
                /\ uploads' = uploads + 1
           ELSE UNCHANGED <<req, uploads>>
        /\ ledger' = IF r.status = 410
                     THEN [ledger EXCEPT ![sha256(chunk)] = AnsweredExpired]
                     ELSE ledger
        /\ UNCHANGED <<now, tasks, stop_event, cached_data, cached_data_q,
                       scans>>

\* what can happen inside diskConvertMp3: ffmpeg writes the mp3, ffmpeg fails
\* (ffmpeg.Error), ffmpeg leaves an empty file, or a temporary file cannot
\* be created (the one exception that leaves diskConvertMp3)
ConverterRuns == {"ok", "ffmpeg_error", "empty_output", "tempfile_error"}

\* diskConvertMp3(file, quality): the bytes, None (data NoBody) or an exception
diskConvertMp3(chunk, quality, run) ==
    IF run = "tempfile_error" THEN [raised |-> TRUE, data |-> NoBody]
    ELSE IF run = "ok"
         THEN [raised |-> FALSE, data |-> Mp3(chunk, QUALITY_MAP[quality])]
         ELSE [raised |-> FALSE, data |-> NoBody]

\* a convert_file that queues the store whatever the converter returned
convert_finish_always_stores(r, run) ==
    [status |-> IF run = "ok" THEN 200 ELSE 500, scheduled |-> TRUE,
     body |-> diskConvertMp3(r.chunk, r.quality, run).data]

\* convert_file from the return of diskConvertMp3 on: 500 when it raised or
\* returned nothing, else the store is queued as a background task and the
\* converted bytes are the response
convert_finish(r, run) ==
    LET converted_file == diskConvertMp3(r.chunk, r.quality, run)
    IN  IF converted_file.raised \/ converted_file.data = NoBody
        THEN [status |-> 500, scheduled |-> FALSE, body |-> NoBody]
        ELSE [status |-> 200, scheduled |-> TRUE,
              body |-> converted_file.data]

\* diskConvertMp3 returns and convert_file ends: the request leaves, or stays
\* as the background task that is still to run
ConvertRun(r, run) ==
    /\ BagIn(r, req)
    /\ r.pc = "converting"
    /\ req' = IF convert_finish(r, run).scheduled
              THEN (req (-) SetToBag({r})) (+)
                   SetToBag({Request("caching", r.filename, r.chunk,
                                     r.quality, convert_finish(r, run).body)})
              ELSE req (-) SetToBag({r})
    /\ UNCHANGED <<now, fs, uploads, tasks, stop_event, cached_data,
                   cached_data_q, scans, faults,
                   ledger>>

\* the background task: cache_file with the request's hash, name and bytes
BackgroundCache(r, written) ==
    /\ BagIn(r, req)
    /\ r.pc = "caching"
    /\ written = 3 \/ faults < MaxFaults
    /\ fs' = cache_file(fs, sha256(r.chunk), r.filename, Raw(r.chunk),
                        r.converted_file, now, written)
    /\ faults' = IF written = 3 THEN faults ELSE faults + 1
    /\ req' = req (-) SetToBag({r})
    /\ ledger' = IF written = 3
                 THEN [ledger EXCEPT ![sha256(r.chunk)] = StoredUntil(now + TTL)]
                 ELSE ledger
    /\ UNCHANGED <<now, uploads, tasks, stop_event, cached_data,
                   cached_data_q, scans>>

----------------------------------------------------------------------------
(* server.py: the download endpoints. *)

\* download_converted_cached_file (ext "mp3") and
\* download_original_cached_file (ext "video")
download_cached_file(fsys, file_id, ext, t, rm) ==
    LET cached_file == find_file(fsys, file_id, ext, t, rm)
    IN  CASE cached_file.out = "hit" ->
               IF cached_file.file.file_bytes = <<>>
               THEN Response("raise", 404, NoBody, cached_file.fs)
               ELSE Response("respond_cached", 200,
                             cached_file.file.file_bytes, cached_file.fs)
          [] cached_file.out = "none" ->
               Response("raise", 404, NoBody, cached_file.fs)
          [] cached_file.out = "expired" ->
               Response("raise", 410, NoBody, cached_file.fs)
          [] cached_file.out = "error" ->
               Response("raise", 500, NoBody, cached_file.fs)

Download(file_id, ext, rm) ==
    /\ ~stop_event
    /\ rm \in FindRmOutcomes(fs, file_id, now)
    /\ fs' = download_cached_file(fs, file_id, ext, now, rm).fs
    /\ faults' = IF rm.ok THEN faults ELSE faults + 1
    /\ ledger' = IF download_cached_file(fs, file_id, ext, now, rm).status = 410
                 THEN [ledger EXCEPT ![file_id] = AnsweredExpired]
                 ELSE ledger
    /\ UNCHANGED <<now, req, uploads, tasks, stop_event, cached_data,
                   cached_data_q, scans>>

----------------------------------------------------------------------------
(* server.py: the background loops. *)

SweepOk == [ok |-> TRUE, keep |-> {}, at |-> <<>>]

\* how the rmtree calls of one sweep can end: all succeed, or the one on
\* folder at fails leaving keep
SweepOutcomes(fsys) ==
    {SweepOk} \cup
    (IF faults < MaxFaults
     THEN UNION {{[ok |-> FALSE, keep |-> k, at |-> h] :
                     k \in (SUBSET DOMAIN fsys[h]) \ {{}}} : h \in DOMAIN fsys}
     ELSE {})

\* one iteration of expiry_loop; an exception out of expiry_job ends the task
ExpiryLoop(order, rm) ==
    LET swept == expiry_job(fs, order, now, rm)
    IN  /\ tasks.expiry = "running"
        /\ ~stop_event
        /\ rm.ok \/ swept.faulted
        /\ fs' = swept.fs
        /\ faults' = IF rm.ok THEN faults ELSE faults + 1
        /\ tasks' = [tasks EXCEPT !.expiry =
                        IF swept.raised THEN "failed" ELSE "running"]
        /\ UNCHANGED <<now, req, uploads, stop_event, cached_data,
                       cached_data_q, scans,
                   ledger>>

\* one iteration of produce_cache: q.put(view_info()); an exception out of
\* view_info ends the task
ProduceCache(order, first) ==
    LET info == view_info(fs, order, first)
    IN  /\ tasks.producer = "running"
        /\ ~stop_event
        /\ scans < MaxScans
        /\ Len(cached_data_q) < MaxQueue
        /\ IF info.raised
           THEN /\ tasks' = [tasks EXCEPT !.producer = "failed"]
                /\ UNCHANGED <<cached_data_q, scans>>
           ELSE /\ cached_data_q' =
                      Append(cached_data_q,
                             [scan |-> scans + 1, data |-> info.data])
                /\ scans' = scans + 1
                /\ UNCHANGED tasks
        /\ UNCHANGED <<now, fs, req, uploads, stop_event, cached_data, faults,
                   ledger>>

\* a consumer on a LIFO queue: it publishes the scan result enqueued last
ConsumeCache_takes_last ==
    /\ tasks.consumer = "running"
    /\ ~stop_event
    /\ IF cached_data_q # <<>>
       THEN /\ cached_data' =
                  [isNone |-> FALSE,
                   scan |-> cached_data_q[Len(cached_data_q)].scan,
                   data |-> cached_data_q[Len(cached_data_q)].data]
            /\ cached_data_q' =
                  SubSeq(cached_data_q, 1, Len(cached_data_q) - 1)
       ELSE UNCHANGED <<cached_data, cached_data_q>>
    /\ UNCHANGED <<now, fs, req, uploads, tasks, stop_event, scans, faults,
                   ledger>>

\* a consumer that takes a scan result off the queue and drops it
ConsumeCache_drops ==
    /\ tasks.consumer = "running"
    /\ ~stop_event
    /\ cached_data_q # <<>>
    /\ cached_data_q' = Tail(cached_data_q)
    /\ UNCHANGED <<now, fs, req, uploads, tasks, stop_event, cached_data,
                   scans, faults, ledger>>

\* one iteration of consume_cache: cached_data = q.get_nowait(), or nothing
\* on queue.Empty
ConsumeCache ==
    /\ tasks.consumer = "running"
    /\ ~stop_event
    /\ IF cached_data_q # <<>>
       THEN /\ cached_data' = [isNone |-> FALSE,
                               scan |-> Head(cached_data_q).scan,
                               data |-> Head(cached_data_q).data]
            /\ cached_data_q' = Tail(cached_data_q)
       ELSE UNCHANGED <<cached_data, cached_data_q>>
    /\ UNCHANGED <<now, fs, req, uploads, tasks, stop_event, scans, faults,
                   ledger>>

\* a shutdown_tasks that sets the stop event and cancels nothing
Shutdown_cancels_nothing ==
    /\ ~stop_event
    /\ req = EmptyBag
    /\ stop_event' = TRUE
    /\ UNCHANGED <<now, fs, req, uploads, tasks, cached_data, cached_data_q,
                   scans, faults, ledger>>

\* shutdown_tasks: set the stop event and cancel the three tasks (uvicorn
\* runs it once the requests in flight and their background tasks are done)
Shutdown ==
    /\ ~stop_event
    /\ req = EmptyBag
    /\ stop_event' = TRUE
    /\ tasks' = [t \in DOMAIN tasks |->
                    IF tasks[t] = "running" THEN "cancelled" ELSE tasks[t]]
    /\ UNCHANGED <<now, fs, req, uploads, cached_data, cached_data_q, scans,
                   faults,
                   ledger>>

\* the clock advances
Tick ==
    /\ now < MaxTime
    /\ now' = now + 1
    /\ UNCHANGED <<fs, req, uploads, tasks, stop_event, cached_data,
                   cached_data_q, scans, faults,
                   ledger>>

----------------------------------------------------------------------------
(* server.py: the listing endpoint. *)

\* round(x / 60, 2) of a whole number of seconds, in hundredths of a minute
\* (x * 100 / 60 is never half way between two integers)
RoundMinutes(seconds) == (10 * seconds + 3) \div 6

\* a max that returns its first argument
Max_first(a, b) == a

Max(a, b) == IF a >= b THEN a ELSE b

\* the item view_cache builds for one entry of the listing at time t
CachedFileInfo(file, t) ==
    [link_original |-> <<"cache/dl/og/", file.video_file_hash>>,
     link_converted |-> <<"cache/dl/", file.video_file_hash>>,
     time_invalidate |-> (file.expiry_date * TickSeconds) % 86400,
     minutes_until_invalid |->
         Max(RoundMinutes((file.expiry_date - t) * TickSeconds), 0)]

RECURSIVE PrettyFrom(_, _, _, _)
\* the loop of view_cache: pretty_cached_data[file.filename] = item
PrettyFrom(data, i, t, pretty_cached_data) ==
    IF i > Len(data) THEN pretty_cached_data
    ELSE PrettyFrom(data, i + 1, t,
            [k \in (DOMAIN pretty_cached_data) \cup {data[i].filename} |->
                IF k = data[i].filename THEN CachedFileInfo(data[i], t)
                ELSE pretty_cached_data[k]])

EmptyDict == [k \in {} |-> 0]

\* view_cache at time t on the published listing: iterating None raises
\* TypeError (500), an empty listing is answered 404
view_cache(published, t) ==
    IF published.isNone
    THEN [status |-> 500, files |-> EmptyDict]
    ELSE IF published.data = <<>>
         THEN [status |-> 404, files |-> EmptyDict]
         ELSE [status |-> 200,
               files |-> PrettyFrom(published.data, 1, t, EmptyDict)]

\* the listing endpoint answers from cached_data and changes nothing
ViewCache ==
    /\ ~stop_event
    /\ view_cache(cached_data, now).status \in {200, 404, 500}
    /\ UNCHANGED vars

----------------------------------------------------------------------------
(* The system. *)

Next ==
    \/ \E u \in Uploads, quality \in Qualities :
          \E rm \in RmOutcomes(fs, sha256(u.chunk)) :
              ConvertLookup(u.filename, u.chunk, quality, rm)
    \/ \E r \in BagToSet(req), run \in ConverterRuns : ConvertRun(r, run)
    \/ \E r \in BagToSet(req), written \in 0..3 : BackgroundCache(r, written)
    \/ \E file_id \in Hashes, ext \in {"mp3", "video"} :
          \E rm \in RmOutcomes(fs, file_id) : Download(file_id, ext, rm)
    \/ \E order \in ListDirs(fs), rm \in SweepOutcomes(fs) :
          ExpiryLoop(order, rm)
    \/ \E order \in ListDirs(fs), first \in FirstMembers(fs) :
          ProduceCache(order, first)
    \/ ConsumeCache
    \/ ViewCache
    \/ Shutdown
    \/ Tick

Spec == Init /\ [][Next]_vars

\* the event loop runs every task that is ready: expiry_loop wakes from its
\* sleep and sweeps again, and a queued background store is run
FairSpec ==
    /\ Spec
    /\ WF_vars(\E order \in ListDirs(fs) : ExpiryLoop(order, SweepOk))
    /\ WF_vars(\E r \in BagToSet(req) : BackgroundCache(r, 3))

----------------------------------------------------------------------------
(* Properties. *)

Exts == {"mp3", "video"}

\* the lookup of hash h in the current state, every rmtree succeeding
Lookup(h, ext) == find_file(fs, h, ext, now, RmOk)

HasMeta(h) == h \in DOMAIN fs /\ MetaName \in DOMAIN fs[h]

\* an upload of these bytes was converted and answered, and its entry is
\* either still to be written by the background task or written and not
\* past its expiry
ConvertedBefore(h) ==
    \/ \E r \in BagToSet(req) : r.pc = "caching" /\ sha256(r.chunk) = h
    \/ HasMeta(h) /\ fs[h][MetaName].expiry_date >= now

\* C1: once an upload of some bytes has been converted, a further upload of
\* the same bytes before the entry's expiry is answered from the cache (the
\* converter is not invoked again), whatever its filename and whether or not
\* the background write of the first upload has run.
C1_SecondUploadHits ==
    \A u \in Uploads :
        (Supported(u.filename) /\ ConvertedBefore(sha256(u.chunk)))
            => convert_file(fs, u.filename, u.chunk, now, RmOk).step
                   = "respond_cached"

\* C2: an upload whose hash matches an entry that the lookup finds expired
\* proceeds as on a miss: the converter is invoked, the request does not
\* fail with the Expired error.
C2_ExpiredProceedsAsMiss ==
    \A u \in Uploads :
        (Supported(u.filename)
         /\ Lookup(sha256(u.chunk), "mp3").out = "expired")
            => convert_file(fs, u.filename, u.chunk, now, RmOk).step
                   = "convert"

\* C3: in every reachable state a lookup returns stored bytes for a hash
\* only if the entry's recorded expiry_date has not passed.
C3_HitOnlyIfNotExpired ==
    \A h \in Hashes, ext \in Exts :
        Lookup(h, ext).out = "hit"
            => HasMeta(h) /\ fs[h][MetaName].expiry_date >= now

\* a lookup serves an entry at the very tick its expiry_date names
C3_Witness ==
    \E h \in Hashes :
        /\ Lookup(h, "mp3").out = "hit"
        /\ Lookup(h, "video").out = "hit"
        /\ fs[h][MetaName].expiry_date = now
        /\ now > 0

\* C4 as stated: once the expiry_at of a stored entry has passed, the next
\* lookup for its hash answers Expired (410), also with the reaper running
\* (no storage fault has occurred).
C4_NextLookupExpired ==
    faults = 0
        => \A h \in Hashes :
              (ledger[h].state = "stored" /\ ledger[h].expiry_at < now)
                  => download_cached_file(fs, h, "mp3", now, RmOk).status
                         = 410

\* C4 as amended: a lookup answers Expired at most once per store.  It
\* answers Expired only for an entry stored and past its expiry_at that no
\* lookup has answered Expired for yet, the directory is gone when it has
\* answered, and the next lookup answers NotFound.
C4_ExpiredAtMostOnce ==
    \A h \in Hashes, ext \in Exts :
        Lookup(h, ext).out = "expired"
            => /\ ledger[h].state = "stored"
               /\ ledger[h].expiry_at < now
               /\ h \notin DOMAIN Lookup(h, ext).fs
               /\ find_file(Lookup(h, ext).fs, h, ext, now, RmOk).out = "none"

\* a lookup has answered Expired for an entry and removed it while the
\* reaper task is alive, and the hash has not been stored again
C4_Witness ==
    \E h \in Hashes :
        /\ ledger[h].state = "expired"
        /\ h \notin DOMAIN fs
        /\ tasks.expiry = "running"
        /\ \A ext \in Exts : Lookup(h, ext).out = "none"

\* C5: every entry directory written by completed cache_file calls has
\* exactly three members, also when the same bytes were stored under
\* different filenames (no storage fault has occurred, so no directory is
\* the remains of an interrupted write or removal).
C5_ThreeMembers ==
    faults = 0 => \A h \in DOMAIN fs : Cardinality(DOMAIN fs[h]) = 3

\* C6: a directory with fewer than three members is in no result of the
\* listing scan and is never a hit of a lookup.
C6_PartialExcluded ==
    \A h \in DOMAIN fs :
        Cardinality(DOMAIN fs[h]) < 3
            => /\ \A ext \in Exts : Lookup(h, ext).out # "hit"
               /\ \A order \in ListDirs(fs), first \in FirstMembers(fs) :
                     LET info == view_info(fs, order, first)
                     IN  ~info.raised
                            => \A i \in 1..Len(info.data) :
                                  info.data[i].video_file_hash # h

\* C7: every entry of the published listing whose expiry has not passed is a
\* hit of the lookup for both the original and the converted payload (no
\* storage fault has occurred).
C7_ListedResolves ==
    (faults = 0 /\ ~cached_data.isNone)
        => \A i \in 1..Len(cached_data.data) :
              cached_data.data[i].expiry_date >= now
                  => \A ext \in Exts :
                        Lookup(cached_data.data[i].video_file_hash, ext).out
                            = "hit"

\* C8: the hand-off queue holds at most one pending scan result.
C8_AtMostOnePending == Len(cached_data_q) <= 1

\* C9: whenever the consumer publishes a listing, it is the scan result
\* produced most recently.
C9_PublishesNewest ==
    [][cached_data' # cached_data => cached_data'.scan = scans]_vars

\* C10: a sweep that meets a folder it cannot process (no metadata.json, or
\* an rmtree that raises) still removes every other expired entry, and the
\* reaper task stays alive.
C10_SweepIsolatesFailures ==
    [][\A order \in ListDirs(fs), rm \in SweepOutcomes(fs) :
          ExpiryLoop(order, rm)
              => /\ tasks'.expiry = "running"
                 /\ \A h \in DOMAIN fs :
                       (HasMeta(h) /\ fs[h][MetaName].expiry_date < now
                        /\ (rm.ok \/ rm.at # h))
                           => h \notin DOMAIN fs']_vars

\* the entry of hash h is on disk and its expiry_date has passed
PastExpiry(h) == HasMeta(h) /\ fs[h][MetaName].expiry_date < now

\* C11: with the reaper loop scheduled fairly, every entry whose expiry_date
\* has passed is eventually removed from storage (or stored afresh), without
\* any lookup, as long as the server is not shut down.
C11_EventuallyReaped ==
    \A h \in Hashes : PastExpiry(h) ~> (~PastExpiry(h) \/ stop_event)

\* the results a listing scan can give in the current state
ScanResults ==
    {view_info(fs, order, first) :
        order \in ListDirs(fs), first \in FirstMembers(fs)}

\* C12: a listing scan always ends with a result, also when the cache holds
\* a directory that does not conform or cannot be read.
C12_ScanNeverFails == \A info \in ScanResults : ~info.raised

\* C13: the result of a listing scan holds no entry whose expiry_date has
\* passed at the time of the scan, whether or not the reaper has removed it.
C13_ScanOmitsExpired ==
    \A info \in ScanResults :
        ~info.raised
            => \A i \in 1..Len(info.data) : info.data[i].expiry_date >= now

\* the converter runs that give convert_file nothing to answer with
FailedRuns == ConverterRuns \ {"ok"}

\* C14: when the converter fails (it raises, or returns no or empty output)
\* the request ends with 500, the request is gone (no second converter run,
\* no background store queued) and the cache tree is left as it was.
C14_FailedConversionStoresNothing ==
    [][\A r \in BagToSet(req), run \in FailedRuns :
          ConvertRun(r, run)
              => /\ convert_finish(r, run).status = 500
                 /\ req' = req (-) SetToBag({r})
                 /\ \A q \in BagToSet(req') :
                       CopiesIn(q, req') <= CopiesIn(q, req)
                 /\ fs' = fs
                 /\ ledger' = ledger]_vars

\* an accepted upload has left the server without any store, complete or
\* interrupted: its conversion failed
C14_Witness ==
    /\ uploads >= 1
    /\ req = EmptyBag
    /\ faults = 0
    /\ \A h \in Hashes : ledger[h].state = "never" /\ h \notin DOMAIN fs

\* C15: an upload whose extension is not in the allow-list is answered 400
\* whatever the cache holds for its bytes and however a removal would end:
\* no lookup runs (an expired entry of the same hash stays on disk) and the
\* cache tree is unchanged.
C15_UnsupportedRejectedFirst ==
    \A u \in Uploads :
        ~Supported(u.filename)
            => \A rm \in RmOutcomes(fs, sha256(u.chunk)) :
                  convert_file(fs, u.filename, u.chunk, now, rm)
                      = Response("rejected", 400, NoBody, fs)

\* an upload with an unsupported extension whose bytes have an expired entry
\* on disk: a lookup would remove the entry and answer 410
C15_Witness ==
    \E u \in Uploads :
        /\ ~Supported(u.filename)
        /\ Lookup(sha256(u.chunk), "mp3").out = "expired"
        /\ convert_file(fs, u.filename, u.chunk, now, RmOk).step = "rejected"

\* C16: the listing endpoint answers 404 whenever the published listing is
\* empty, also before the consumer has published anything.
C16_EmptyListingIs404 ==
    (cached_data.isNone \/ cached_data.data = <<>>)
        => view_cache(cached_data, now).status = 404

\* the items of the listing endpoint's answer in the current state
ListedItems ==
    LET answer == view_cache(cached_data, now)
    IN  {answer.files[k] : k \in DOMAIN answer.files}

\* C17: minutes_until_invalid of every item of the listing is >= 0, also
\* when the item's expiry_date has passed.
C17_MinutesNeverNegative ==
    \A item \in ListedItems : item.minutes_until_invalid >= 0

\* the listing is answered with an entry whose expiry_date has passed
C17_Witness ==
    /\ view_cache(cached_data, now).status = 200
    /\ \E i \in 1..Len(cached_data.data) :
          /\ cached_data.data[i].expiry_date < now
          /\ view_cache(cached_data, now)
                 .files[cached_data.data[i].filename].minutes_until_invalid = 0

\* cached_data after q.get_nowait() returned item
Published(item) == [isNone |-> FALSE, scan |-> item.scan, data |-> item.data]

\* C18: the published listing changes only in a step that takes the head of
\* a non-empty hand-off queue and makes it the listing, whole; with the
\* queue empty no step changes the listing; and whatever leaves the queue is
\* published.  A step that changes the listing changes nothing but the
\* listing and the queue (it is the consumer's).
C18_OnlyConsumerPublishes ==
    [][/\ cached_data' # cached_data
            => /\ cached_data_q # <<>>
               /\ cached_data' = Published(Head(cached_data_q))
               /\ cached_data_q' = Tail(cached_data_q)
               /\ UNCHANGED <<now, fs, req, uploads, tasks, stop_event,
                              scans, faults, ledger>>
       /\ cached_data_q = <<>> => cached_data' = cached_data
       /\ Len(cached_data_q') < Len(cached_data_q)
            => cached_data' = Published(Head(cached_data_q))]_vars

\* the consumer has replaced a published listing by the next scan result,
\* which lists an entry
C18_Witness ==
    /\ ~cached_data.isNone
    /\ cached_data.scan = 2
    /\ cached_data.data # <<>>
    /\ cached_data_q = <<>>

\* the background store of request r is queued (its response is produced)
Pending(r) == BagIn(r, req) /\ r.pc = "caching"

\* the directory of r's hash in tree fsys holds the upload under its name,
\* the converted bytes under base.mp3, and a metadata.json
StoredBoth(fsys, r) ==
    LET h == sha256(r.chunk)
        mp3_filename == splitext(r.filename)[1] \o Mp3Ext
    IN  /\ h \in DOMAIN fsys
        /\ {r.filename, mp3_filename, MetaName} \subseteq DOMAIN fsys[h]
        /\ fsys[h][r.filename] = BytesFile(Raw(r.chunk))
        /\ fsys[h][mp3_filename]
               = BytesFile(Mp3(r.chunk, QUALITY_MAP[r.quality]))

\* the requests a successful conversion leaves behind
CachingRequests ==
    {Request("caching", u.filename, u.chunk, q, Mp3(u.chunk, QUALITY_MAP[q])) :
        u \in Uploads, q \in Qualities}

\* C19: members are written into a hash's directory only by a step that
\* runs the queued store of a request of that hash whose response is already
\* produced; every store that runs leaves the original and the converted
\* bytes under that hash, unless a storage fault interrupts it; and with
\* the event loop fair every queued store eventually runs.
C19_StoreFollowsResponse ==
    /\ [][\A h \in DOMAIN fs' :
             (h \notin DOMAIN fs \/ ~(DOMAIN fs'[h] \subseteq DOMAIN fs[h]))
                 => \E r \in BagToSet(req) :
                       /\ r.pc = "caching"
                       /\ sha256(r.chunk) = h
                       /\ req' = req (-) SetToBag({r})]_vars
    /\ [][\A r \in BagToSet(req) :
             (r.pc = "caching" /\ CopiesIn(r, req') < CopiesIn(r, req))
                 => StoredBoth(fs', r) \/ faults' > faults]_vars
    /\ \A r \in CachingRequests : Pending(r) ~> ~Pending(r)

\* a conversion on a miss was answered and its store has run to the end
C19_Witness ==
    \E r \in CachingRequests :
        /\ ~Pending(r)
        /\ StoredBoth(fs, r)
        /\ faults = 0
        /\ ledger[sha256(r.chunk)].state = "stored"
        /\ Cardinality(DOMAIN fs[sha256(r.chunk)]) = 3

\* a directory that holds metadata.json holds the two payloads it names
MetaConsistent(dir) ==
    MetaName \in DOMAIN dir
        => /\ (dir[MetaName].filename \o dir[MetaName].file_ext) \in DOMAIN dir
           /\ (dir[MetaName].filename \o Mp3Ext) \in DOMAIN dir

\* C20: a store, run to the end or interrupted after any number of writes,
\* never leaves a metadata.json beside which a payload it names is missing:
\* every step that removes no member of a directory keeps that directory
\* consistent, and makes a new directory consistent.
C20_MetadataWrittenLast ==
    [][\A h \in DOMAIN fs' :
          (IF h \in DOMAIN fs
           THEN DOMAIN fs[h] \subseteq DOMAIN fs'[h] /\ MetaConsistent(fs[h])
           ELSE TRUE)
              => MetaConsistent(fs'[h])]_vars

\* a store was interrupted after the two payloads and before metadata.json
\* (the hash was never stored completely, so nothing was ever removed)
C20_Witness ==
    \E h \in DOMAIN fs :
        /\ ledger[h].state = "never"
        /\ Cardinality(DOMAIN fs[h]) = 2
        /\ MetaName \notin DOMAIN fs[h]

\* directory h loses a member, or goes, between trees before and after
Deleted(before, after, h) ==
    /\ h \in DOMAIN before
    /\ h \notin DOMAIN after \/ ~(DOMAIN before[h] \subseteq DOMAIN after[h])

\* C21: a step that removes a directory, or members of one, removes them
\* from an entry whose expiry_date has passed, and it is a sweep or a lookup:
\* it queues and runs no conversion or store, produces and publishes no scan
\* result, and writes nothing into any directory.
C21_OnlyExpiredDeleted ==
    [][\A h \in DOMAIN fs :
          Deleted(fs, fs', h)
              => /\ PastExpiry(h)
                 /\ UNCHANGED <<now, req, uploads, stop_event, cached_data,
                                cached_data_q, scans>>
                 /\ \A g \in DOMAIN fs' :
                       /\ g \in DOMAIN fs
                       /\ \A n \in DOMAIN fs'[g] :
                             n \in DOMAIN fs[g] /\ fs'[g][n] = fs[g][n]]_vars

\* the reaper has removed a stored entry after its expiry_at while another
\* entry, not yet expired, is still on disk
C21_Witness ==
    \E h, g \in Hashes :
        /\ ledger[h].state = "stored"
        /\ ledger[h].expiry_at < now
        /\ h \notin DOMAIN fs
        /\ HasMeta(g)
        /\ ~PastExpiry(g)

\* C22: once shutdown_tasks has set the stop event none of the three loops
\* is running, and no step sweeps, scans, enqueues or publishes any more.
C22_StopsAllLoops ==
    /\ [](stop_event => \A t \in DOMAIN tasks : tasks[t] # "running")
    /\ [][stop_event
            => UNCHANGED <<fs, cached_data, cached_data_q, scans, tasks,
                           stop_event>>]_vars

\* the server was shut down with all three loops alive, an expired entry
\* on disk and a scan result waiting in the queue: a sweep and a publish
\* were due
C22_Witness ==
    /\ stop_event
    /\ \A t \in DOMAIN tasks : tasks[t] = "cancelled"
    /\ cached_data_q # <<>>
    /\ \E h \in Hashes : PastExpiry(h)

\* C23: the published listing never goes back to an older scan result:
\* the scan number of cached_data never decreases.
C23_NeverRegresses ==
    [][cached_data'.scan >= cached_data.scan]_vars

\* the first scan result is published while the second one waits
C23_Witness ==
    /\ ~cached_data.isNone
    /\ cached_data.scan = 1
    /\ Len(cached_data_q) = 1
    /\ Head(cached_data_q).scan = 2

\* C24: the answer of the listing endpoint has one item per entry of the
\* published listing, and the hash of every entry is in the links of some
\* item, also when entries of different hashes share a base filename.
C24_OneItemPerEntry ==
    view_cache(cached_data, now).status = 200
        => /\ Cardinality(ListedItems) = Len(cached_data.data)
           /\ Cardinality(DOMAIN view_cache(cached_data, now).files)
                  = Len(cached_data.data)
           /\ \A i \in 1..Len(cached_data.data) :
                 \E item \in ListedItems :
                     /\ item.link_original[2]
                            = cached_data.data[i].video_file_hash
                     /\ item.link_converted[2]
                            = cached_data.data[i].video_file_hash

====
